---- MODULE Spec2Model ----
(***************************************************************************)
(* Model of the plant-disease inference service (app/services/ml_service).*)
(* Strings the service inspects character by character (labels, disease   *)
(* keys) are sequences of one-character strings, so that lower(),         *)
(* capitalize() and the `in` substring test are computed, not assumed.    *)
(* Probabilities are integers in units of 1/One.                          *)
(***************************************************************************)
EXTENDS Integers, Sequences, FiniteSets, TLC

VARIABLES
    env,                   \* what the process finds at start-up: runtime, artifact
    phase,                 \* "new" before MLService() has run, "ready" after,
                           \* "failed" if the constructor let an exception through
    model,                 \* self.model
    model_loaded,          \* self.model_loaded
    tensorflow_available,  \* self._tensorflow_available
    loads,                 \* number of calls of tf.keras.models.load_model so far
    op,                    \* the call that has just returned ("idle": none pending)
    image_data,            \* analyze_plant_image: its argument
    processed_image,       \* analyze_plant_image: outcome of _preprocess_image
    steps,                 \* analyze_plant_image: the tiers it ran, in order
    base_probs,            \* _simulated_analysis: the profile it picked
    runtime,               \* analyze_plant_image: what the prediction runtime did
    result,                \* what the call returned or raised
    disease_arg,           \* _get_recommendations: its argument, on a direct call
    cache,                 \* lru_cache of _get_recommendations: its entries
                           \* <<argument, value>>, least recently used first
    hits,                  \* lru_cache: cache_info().hits
    misses,                \* lru_cache: cache_info().misses
    calls,                 \* SpecCalls: the frame of each caller's
                           \* analyze_plant_image coroutine
    request,               \* SpecRoute: the upload POST /analyze received
    route_steps,           \* SpecRoute: the statements of analyze_plant run,
                           \* in order
    response               \* SpecRoute: the HTTP answer to the request

vars == <<env, phase, model, model_loaded, tensorflow_available, loads,
          op, image_data, processed_image, steps, base_probs, runtime, result,
          disease_arg, cache, hits, misses, calls,
          request, route_steps, response>>

\* The lru_cache is followed in SpecCache. The actions of Spec call the
\* function under the decorator and leave the cache as it is.
cacheVars == <<cache, hits, misses>>

\* The route is followed in SpecRoute. The other specifications call the
\* service directly and leave the route's frame empty.
routeVars == <<request, route_steps, response>>

----------------------------------------------------------------------------
(* Bounds of the model *)

\* SpecCalls: the number of callers whose calls are in flight together
NumCallers == 2
\* SpecCache: a run has at most LRU_MAXSIZE + CacheOverflow cache misses
CacheOverflow == 2
\* SpecCache: a run has at most MaxHits cache hits
MaxHits == 2
\* widths and heights range over MAX_IMAGE_SIZE - 1 .. MAX_IMAGE_SIZE + DimSlack
DimSlack == 1
\* a channel mean is one of the levels 0 .. MaxLevel (MaxLevel stands for 255)
MaxLevel == 2
\* probabilities are multiples of 1/(2 * Resolution)
Resolution == 2

One == 2 * Resolution
Half == Resolution

----------------------------------------------------------------------------
(* Program constants *)

MAX_IMAGE_SIZE == 2048
LRU_MAXSIZE == 32
IMAGE_SIZE == <<224, 224>>
NUM_CLASSES_TRAINED == 8

PLANTE_MIL == <<"m", "i", "l">>
PLANTE_MAIS == <<"m", "a", "i", "s">>
PLANTE_COTON == <<"c", "o", "t", "o", "n">>
PLANTE_SORGHO == <<"s", "o", "r", "g", "h", "o">>

K_SAIN == <<"s", "a", "i", "n">>
K_ROUILLE == <<"r", "o", "u", "i", "l", "l", "e">>
K_MILDIOU == <<"m", "i", "l", "d", "i", "o", "u">>
K_CHARBON == <<"c", "h", "a", "r", "b", "o", "n">>
K_CERCOSPORIOSE == <<"c", "e", "r", "c", "o", "s", "p", "o", "r", "i", "o", "s", "e">>
K_PYRALE == <<"p", "y", "r", "a", "l", "e">>
K_POURRITURE == <<"p", "o", "u", "r", "r", "i", "t", "u", "r", "e">>
K_BACTERIOSE == <<"b", "a", "c", "t", "e", "r", "i", "o", "s", "e">>
K_ALTERNARIOSE == <<"a", "l", "t", "e", "r", "n", "a", "r", "i", "o", "s", "e">>
K_ANTHRACNOSE == <<"a", "n", "t", "h", "r", "a", "c", "n", "o", "s", "e">>

\* the dict MALADIES_BURKINA, as its items() in insertion order
MALADIES_BURKINA ==
    << <<PLANTE_MIL, <<K_SAIN, K_ROUILLE, K_CHARBON, K_CERCOSPORIOSE>> >>,
       <<PLANTE_MAIS, <<K_SAIN, K_MILDIOU, K_PYRALE, K_CHARBON>> >>,
       <<PLANTE_COTON, <<K_SAIN, K_POURRITURE, K_BACTERIOSE, K_ALTERNARIOSE>> >>,
       <<PLANTE_SORGHO, <<K_SAIN, K_ROUILLE, K_CHARBON, K_ANTHRACNOSE>> >> >>

Reco(t, p, u) == [traitement |-> t, prevention |-> p, urgence |-> u]

\* the dict RECOMMENDATIONS, as its items() in insertion order
RECOMMENDATIONS ==
    << <<K_ROUILLE, Reco("Appliquez un fongicide a base de soufre. Traitement recommande tot le matin.",
                         "Evitez les densites de plantation trop elevees. Pratiquez la rotation des cultures.",
                         "medium")>>,
       <<K_MILDIOU, Reco("Utilisez un fongicide systemique. Evitez les arrosages par aspersion.",
                         "Assurez une bonne circulation d'air. Utilisez des varietes resistantes.",
                         "high")>>,
       <<K_CHARBON, Reco("Traitement fongicide preventif. Brulez les plants atteints.",
                         "Utilisez des semences saines. Pratiquez la rotation sur 3 ans.",
                         "high")>>,
       <<K_CERCOSPORIOSE, Reco("Fongicides a base de triazoles. Repetez le traitement apres pluie.",
                               "Evitez l'humidite prolongee sur les feuilles.",
                               "medium")>>,
       <<K_PYRALE, Reco("Traitement insecticide au stade larvaire. Destruction des residus.",
                        "Labour profond apres recolte. Surveillance reguliere.",
                        "high")>>,
       <<K_POURRITURE, Reco("Fongicide preventif. Drainage ameliore du sol.",
                            "Evitez l'exces d'eau. Rotation avec legumineuses.",
                            "medium")>>,
       <<K_BACTERIOSE, Reco("Cuivre a faible dose. Eliminez les plants infectes.",
                            "Semences certifiees. Evitez les blessures aux plants.",
                            "high")>>,
       <<K_ALTERNARIOSE, Reco("Fongicide specifique. Application preventive recommandee.",
                              "Rotation culturale. Elimination des debris vegetaux.",
                              "medium")>>,
       <<K_ANTHRACNOSE, Reco("Fongicide systemique. Traitement des semences.",
                             "Varietes resistantes. Rotation sur 2-3 ans.",
                             "medium")>>,
       <<K_SAIN, Reco("Aucun traitement necessaire. Continuez les bonnes pratiques.",
                      "Maintenez la surveillance reguliere. Fertilisation equilibree.",
                      "low")>> >>

\* the record _get_recommendations builds when no key matches
GENERIC_RECO ==
    Reco("Surveillance recommandee. Consultez un agronome local.",
         "Pratiques culturales adaptees au climat burkinabe.",
         "low")

\* the label list of _simulated_analysis
SIM_DISEASES ==
    << <<"P", "l", "a", "n", "t", "e", " ", "S", "a", "i", "n">>,
       <<"R", "o", "u", "i", "l", "l", "e">>,
       <<"M", "i", "l", "d", "i", "o", "u">>,
       <<"C", "h", "a", "r", "b", "o", "n">>,
       <<"C", "e", "r", "c", "o", "s", "p", "o", "r", "i", "o", "s", "e">> >>

INCONNU == <<"I", "n", "c", "o", "n", "n", "u">>
ANALYSE_EN_ATTENTE ==
    <<"A", "n", "a", "l", "y", "s", "e", " ", "e", "n", " ", "a", "t", "t", "e", "n", "t", "e">>

----------------------------------------------------------------------------
(* Values and exceptions *)

NoValue == <<>>
Return(v) == [raised |-> FALSE, exc |-> "", value |-> v]
Raise(e) == [raised |-> TRUE, exc |-> e, value |-> NoValue]

Min(a, b) == IF a <= b THEN a ELSE b

----------------------------------------------------------------------------
(* str.lower, str.capitalize, `in` *)

UPPER == <<"A", "B", "C", "D", "E", "F", "G", "H", "I", "J", "K", "L", "M",
           "N", "O", "P", "Q", "R", "S", "T", "U", "V", "W", "X", "Y", "Z">>
LOWER == <<"a", "b", "c", "d", "e", "f", "g", "h", "i", "j", "k", "l", "m",
           "n", "o", "p", "q", "r", "s", "t", "u", "v", "w", "x", "y", "z">>

LowerChar(c) ==
    IF \E i \in 1..Len(UPPER) : UPPER[i] = c
    THEN LOWER[CHOOSE i \in 1..Len(UPPER) : UPPER[i] = c]
    ELSE c

UpperChar(c) ==
    IF \E i \in 1..Len(LOWER) : LOWER[i] = c
    THEN UPPER[CHOOSE i \in 1..Len(LOWER) : LOWER[i] = c]
    ELSE c

StrLower(s) == [i \in 1..Len(s) |-> LowerChar(s[i])]

Capitalize(s) ==
    [i \in 1..Len(s) |-> IF i = 1 THEN UpperChar(s[i]) ELSE LowerChar(s[i])]

\* key in s
IsSubstring(key, s) ==
    \E off \in 0..(Len(s) - Len(key)) :
        \A i \in 1..Len(key) : s[off + i] = key[i]

----------------------------------------------------------------------------
(* _get_recommendations, without its cache *)

\* variant: the keys scanned from the last declared to the first
RECURSIVE RecoScanReversed(_, _)
RecoScanReversed(k, disease_lower) ==
    IF k > Len(RECOMMENDATIONS) THEN GENERIC_RECO
    ELSE IF IsSubstring(RECOMMENDATIONS[Len(RECOMMENDATIONS) + 1 - k][1], disease_lower)
         THEN RECOMMENDATIONS[Len(RECOMMENDATIONS) + 1 - k][2]
         ELSE RecoScanReversed(k + 1, disease_lower)

RECURSIVE RecoScan(_, _)
RecoScan(k, disease_lower) ==
    IF k > Len(RECOMMENDATIONS) THEN GENERIC_RECO
    ELSE IF IsSubstring(RECOMMENDATIONS[k][1], disease_lower)
         THEN RECOMMENDATIONS[k][2]
         ELSE RecoScan(k + 1, disease_lower)

\* variant: no record when no key matches
GetRecommendationsOrNone(disease) ==
    IF \E k \in 1..Len(RECOMMENDATIONS) :
            IsSubstring(RECOMMENDATIONS[k][1], StrLower(disease))
    THEN RecoScan(1, StrLower(disease))
    ELSE NoValue

\* variant: the lookup without disease.lower()
GetRecommendationsNoLower(disease) == RecoScan(1, disease)

\* _get_recommendations: disease_lower = disease.lower() is computed once
\* (line 305) and the keys are scanned in declaration order
GetRecommendations(disease) ==
    CHOOSE reco \in {RecoScan(1, disease_lower) :
                        disease_lower \in {StrLower(d) : d \in {disease}}} : TRUE

\* variant: a cache that never evicts
LruInsertUnbounded(c, entry) == c \o <<entry>>

\* lru_cache(maxsize=32) storing a new entry: a full cache drops its least
\* recently used entry
LruInsert(c, entry) ==
    IF Len(c) >= LRU_MAXSIZE THEN Tail(c) \o <<entry>> ELSE c \o <<entry>>

\* variant: a cache keyed by the lowercased argument's first character
LruKeyFirstChar(disease) == SubSeq(StrLower(disease), 1, 1)

\* the key lru_cache makes of the call's arguments: self is the one
\* instance, so the key is the label as passed
LruKey(disease) == disease

\* the decorated _get_recommendations on cache c: the value returned, the
\* cache afterwards, and whether the call was a hit; a hit returns the stored
\* value and makes its entry the most recently used
CachedGetRecommendations(c, disease) ==
    LET key == LruKey(disease)
        found == {i \in 1..Len(c) : c[i][1] = key}
    IN  IF found # {}
        THEN LET i == CHOOSE i \in found : TRUE
             IN  [value |-> c[i][2], hit |-> TRUE,
                  cache |-> SubSeq(c, 1, i - 1) \o SubSeq(c, i + 1, Len(c)) \o <<c[i]>>]
        ELSE LET value == GetRecommendations(disease)
             IN  [value |-> value, hit |-> FALSE,
                  cache |-> LruInsert(c, <<key, value>>)]

----------------------------------------------------------------------------
(* _get_all_diseases_flat *)

LabelOf(maladie, plante) ==
    Capitalize(maladie) \o <<" ", "(">> \o Capitalize(plante) \o <<")">>

RECURSIVE FlatFrom(_, _)
FlatFrom(p, m) ==
    IF p > Len(MALADIES_BURKINA) THEN <<>>
    ELSE IF m > Len(MALADIES_BURKINA[p][2]) THEN FlatFrom(p + 1, 1)
         ELSE <<LabelOf(MALADIES_BURKINA[p][2][m], MALADIES_BURKINA[p][1])>>
              \o FlatFrom(p, m + 1)

GetAllDiseasesFlat == FlatFrom(1, 1)

----------------------------------------------------------------------------
(* Inputs: the images a caller can pass *)

Levels == 0..MaxLevel
Dims == (MAX_IMAGE_SIZE - 1)..(MAX_IMAGE_SIZE + DimSlack)
Modes == {"RGB", "L", "RGBA", "P"}

\* the file format PIL reports for an image of this mode
FormatOf(mode) == IF mode \in {"RGB", "L"} THEN "JPEG" ELSE "PNG"

\* the per-band mean levels of an image of this mode; a palette image has
\* one band of palette indices, an RGBA image here is opaque
BandsOf(mode) ==
    CASE mode = "RGB" -> [1..3 -> Levels]
      [] mode = "L" -> [1..1 -> Levels]
      [] mode = "RGBA" -> {rgb \o <<MaxLevel>> : rgb \in [1..3 -> Levels]}
      [] mode = "P" -> [1..1 -> Levels]

\* bytes PIL cannot identify
UndecodableBytes ==
    [decode |-> "undecodable", width |-> 0, height |-> 0,
     mode |-> "", format |-> "", bands |-> <<>>]

\* "ok": a complete image file; "truncated": the header parses (Image.open
\* succeeds, size and mode are known) but the pixel data does not load
Images ==
    {UndecodableBytes}
    \cup {[decode |-> "truncated", width |-> w, height |-> h,
           mode |-> m, format |-> FormatOf(m), bands |-> <<>>] :
            w \in Dims, h \in Dims, m \in Modes}
    \cup UNION {{[decode |-> "ok", width |-> w, height |-> h,
                  mode |-> m, format |-> FormatOf(m), bands |-> b] :
                    w \in Dims, h \in Dims, b \in BandsOf(m)} : m \in Modes}

----------------------------------------------------------------------------
(* _preprocess_image *)

\* the palette of a "P" image: index i is a pure colour in channel (i % 3) + 1
PaletteColour(i) == [c \in 1..3 |-> IF c = (i % 3) + 1 THEN MaxLevel ELSE 0]

\* image.convert('RGB') on the band means
ConvertRGB(mode, bands) ==
    CASE mode = "L" -> <<bands[1], bands[1], bands[1]>>
      [] mode = "RGBA" -> SubSeq(bands, 1, 3)
      [] mode = "P" -> PaletteColour(bands[1])
      [] OTHER -> bands

\* variant: the size test with >= for >
TooLargeInclusive(image) ==
    image.width >= MAX_IMAGE_SIZE \/ image.height >= MAX_IMAGE_SIZE

\* the size test of line 171
TooLarge(image) ==
    image.width > MAX_IMAGE_SIZE \/ image.height > MAX_IMAGE_SIZE

\* lines 174-184 on an image whose pixel data loads: the float array, as its
\* shape and its per-channel means (in levels, MaxLevel standing for 1.0)
ToArray(image) ==
    LET rgb == IF image.mode # "RGB"
               THEN ConvertRGB(image.mode, image.bands)
               ELSE image.bands
    IN  [height |-> IMAGE_SIZE[2], width |-> IMAGE_SIZE[1],
         channels |-> Len(rgb), avg_color |-> rgb]

PreprocessImage(data) ==
    IF data.decode = "undecodable" THEN Raise("ValueError")
    ELSE IF TooLarge(data) THEN Raise("ValueError")
    ELSE IF data.decode = "truncated" THEN Raise("ValueError")
    ELSE Return(ToArray(data))

----------------------------------------------------------------------------
(* PredictionResult and the three analyses *)

PredictionResult(disease, confidence, all_predictions, recommendations, metadata) ==
    [disease |-> disease, confidence |-> confidence,
     all_predictions |-> all_predictions,
     recommendations |-> recommendations, metadata |-> metadata]

\* variant: the index of the last maximum
ArgMaxLast(v) ==
    (CHOOSE i \in 1..Len(v) :
        /\ \A j \in 1..Len(v) : v[j] <= v[i]
        /\ \A j \in (i + 1)..Len(v) : v[j] < v[i]) - 1

\* np.argmax: the 0-based index of the first maximum
ArgMax(v) ==
    (CHOOSE i \in 1..Len(v) :
        /\ \A j \in 1..Len(v) : v[j] <= v[i]
        /\ \A j \in 1..(i - 1) : v[j] < v[i]) - 1

\* {k: v for k, v in zip(keys, vals)}: zip stops at the shorter sequence, a
\* repeated key keeps its last value
DictZip(keys, vals) ==
    LET n == Min(Len(keys), Len(vals))
    IN  [d \in {keys[k] : k \in 1..n} |->
            vals[CHOOSE k \in 1..n :
                    keys[k] = d /\ \A k2 \in (k + 1)..n : keys[k2] # d]]

\* _real_analysis; rt is what self.model.predict does on this call
RealAnalysis(image_array, original_data, rt) ==
    IF rt.predict_raises THEN Raise("PredictError")
    ELSE
      LET predictions == rt.predictions
          predicted_index == ArgMax(predictions)
          confidence == predictions[predicted_index + 1]
          all_diseases == GetAllDiseasesFlat
          predicted_disease ==
              IF predicted_index < Len(all_diseases)
              THEN all_diseases[predicted_index + 1]
              ELSE INCONNU
          all_preds == DictZip(all_diseases, predictions)
      IN  IF original_data.decode = "undecodable" THEN Raise("UnidentifiedImageError")
          ELSE Return(PredictionResult(
                  predicted_disease, confidence, all_preds,
                  GetRecommendations(predicted_disease),
                  [width |-> original_data.width, height |-> original_data.height,
                   format |-> original_data.format,
                   analysis_type |-> "REAL_ML", model_version |-> "1.0"]))

Sum3(c) == c[1] + c[2] + c[3]

\* x / (s + 1e-6) > 0.4 for means x / MaxLevel and s / MaxLevel
RatioAbove(x, s) == 10000000 * x > 4000000 * s + 4 * MaxLevel

\* variant: the green test before the red test
BaseProbsGreenFirst(avg_color) ==
    IF RatioAbove(avg_color[2], Sum3(avg_color)) THEN <<60, 15, 10, 5, 10>>
    ELSE IF RatioAbove(avg_color[1], Sum3(avg_color)) THEN <<10, 50, 15, 10, 15>>
    ELSE <<20, 25, 20, 15, 20>>

\* the profile of lines 253-258, in hundredths
BaseProbs(avg_color) ==
    IF RatioAbove(avg_color[1], Sum3(avg_color)) THEN <<10, 50, 15, 10, 15>>
    ELSE IF RatioAbove(avg_color[2], Sum3(avg_color)) THEN <<60, 15, 10, 5, 10>>
    ELSE <<20, 25, 20, 15, 20>>

\* _simulated_analysis; rt.dirichlet is the vector np.random.dirichlet draws
SimulatedAnalysis(image_array, rt) ==
    IF image_array.channels < 3 THEN Raise("IndexError")
    ELSE
      LET avg_color == image_array.avg_color
          confidence == rt.dirichlet
          predicted_index == ArgMax(confidence)
          diseases == SIM_DISEASES
          predicted_disease == diseases[predicted_index + 1]
          all_preds == DictZip(diseases, confidence)
      IN  Return(PredictionResult(
              predicted_disease, confidence[predicted_index + 1], all_preds,
              GetRecommendations(predicted_disease),
              [analysis_type |-> "SIMULATION",
               avg_red |-> avg_color[1], avg_green |-> avg_color[2],
               avg_blue |-> avg_color[3]]))

\* variant: the fallback looks up the recommendation of its own label
SimulatedAnalysisFallbackByLabel(data) ==
    Return(PredictionResult(
        ANALYSE_EN_ATTENTE, Half,
        [d \in {ANALYSE_EN_ATTENTE} |-> One],
        GetRecommendations(ANALYSE_EN_ATTENTE),
        [analysis_type |-> "FALLBACK", error |-> "true"]))

\* _simulated_analysis_fallback
SimulatedAnalysisFallback(data) ==
    Return(PredictionResult(
        ANALYSE_EN_ATTENTE, Half,
        [d \in {ANALYSE_EN_ATTENTE} |-> One],
        GetRecommendations(K_SAIN),
        [analysis_type |-> "FALLBACK", error |-> "true"]))

----------------------------------------------------------------------------
(* analyze_plant_image *)

\* variant: the try block without its except clause
HandleReraise(body, data) == body

\* the except clause of lines 154-157 around the body of the try
Handle(body, data) ==
    IF body.raised THEN SimulatedAnalysisFallback(data) ELSE body

\* variant: the model is used whenever tensorflow imports
UseRealModelWhenTensorflow(self) == self.tensorflow_available

\* the test of line 149
UseRealModel(self) == self.model_loaded /\ ~self.model.is_none

\* variant: a failed analysis marks the backend unavailable
SelfAfterMarkUnavailable(self, body) ==
    IF body.raised THEN [self EXCEPT !.model_loaded = FALSE] ELSE self

\* variant: a call that finds no model loaded loads it again
SelfAfterReload(self, body) ==
    IF self.model_loaded THEN self ELSE [self EXCEPT !.loads = @ + 1]

\* the fields of self after a call of analyze_plant_image whose try block
\* ended as body: no statement of lines 139-301 assigns to self
SelfAfter(self, body) == self

\* One call, as the outcome of each stage: pre is what _preprocess_image did,
\* tier the analysis chosen at line 149 ("none" when preprocessing raised),
\* body the outcome of the try block, ret what the call hands to its caller,
\* base_probs the profile of _simulated_analysis (<<>> when it did not get
\* there), self the fields of the service after the call
AnalyzePlantImage(self, data, rt) ==
    LET pre == PreprocessImage(data)
        tier == IF pre.raised THEN "none"
                ELSE IF UseRealModel(self) THEN "real" ELSE "simulated"
        body == CASE tier = "none" -> pre
                  [] tier = "real" -> RealAnalysis(pre.value, data, rt)
                  [] tier = "simulated" -> SimulatedAnalysis(pre.value, rt)
        ret == Handle(body, data)
    IN  [pre |-> pre, tier |-> tier, body |-> body, ret |-> ret,
         base_probs |-> IF tier = "simulated" /\ ~body.raised
                        THEN BaseProbs(pre.value.avg_color) ELSE <<>>,
         self |-> SelfAfter(self, body),
         steps |-> <<"preprocess">>
                   \o (IF tier = "none" THEN <<>> ELSE <<tier>>)
                   \o (IF body.raised THEN <<"fallback">> ELSE <<>>)]

----------------------------------------------------------------------------
(* The prediction runtime, as seen by one call *)

NoRuntime == [predict_raises |-> FALSE, predictions |-> <<>>, dirichlet |-> <<>>]

\* probability vectors of length n: a peak c at index i and the remainder
\* One - c <= c at a neighbouring index (equal halves give a tie)
ProbVectors(n) ==
    UNION {{[k \in 1..n |-> IF k = i THEN c ELSE IF k = j THEN One - c ELSE 0] :
                j \in {i - 1, i + 1} \cap (1..n), c \in Half..One} : i \in 1..n}

\* what the runtime can do in a call on data: nothing is drawn for a part
\* the call does not reach
RuntimeChoices(self, data) ==
    IF PreprocessImage(data).raised THEN {NoRuntime}
    ELSE IF UseRealModel(self)
         THEN {[NoRuntime EXCEPT !.predict_raises = TRUE]}
              \cup {[NoRuntime EXCEPT !.predictions = v] :
                        v \in ProbVectors(self.model.num_classes)}
         ELSE {[NoRuntime EXCEPT !.dirichlet = v] : v \in ProbVectors(Len(SIM_DISEASES))}

----------------------------------------------------------------------------
(* The environment at start-up, and MLService.__init__ *)

NoneModel == [is_none |-> TRUE, num_classes |-> 0]
KerasModel(n) == [is_none |-> FALSE, num_classes |-> n]

\* output sizes of the artifact: the training script's, the taxonomy's, one more
ModelOutputSizes ==
    {NUM_CLASSES_TRAINED, Len(GetAllDiseasesFlat), Len(GetAllDiseasesFlat) + 1}

\* tensorflow: what `import tensorflow` does; model_file: os.path.exists(MODEL_PATH);
\* load_raises, num_classes: what load_model does with the artifact
Envs ==
    {[tensorflow |-> t, model_file |-> f, load_raises |-> FALSE, num_classes |-> 0] :
        t \in {"ImportError", "Exception"}, f \in BOOLEAN}
    \cup {[tensorflow |-> "ok", model_file |-> FALSE, load_raises |-> FALSE, num_classes |-> 0]}
    \cup {[tensorflow |-> "ok", model_file |-> TRUE, load_raises |-> TRUE, num_classes |-> 0]}
    \cup {[tensorflow |-> "ok", model_file |-> TRUE, load_raises |-> FALSE, num_classes |-> n] :
            n \in ModelOutputSizes}

\* variant: the flag is set before the import is tried
CheckTensorflowOptimistic(e) == TRUE

\* _check_tensorflow: the value it leaves in self._tensorflow_available
CheckTensorflow(e) == e.tensorflow = "ok"

\* variant: load_model without the os.path.exists test
LoadModelNoExistsTest(self, e) ==
    IF ~self.tensorflow_available THEN [self EXCEPT !.loads = 0]
    ELSE IF e.load_raises
         THEN [self EXCEPT !.model_loaded = FALSE, !.loads = 1]
         ELSE [self EXCEPT !.model = KerasModel(e.num_classes),
                           !.model_loaded = TRUE, !.loads = 1]

\* load_model: the fields it leaves, and the number of load_model calls it made
LoadModel(self, e) ==
    IF ~self.tensorflow_available THEN [self EXCEPT !.loads = 0]
    ELSE IF e.model_file
         THEN IF e.load_raises
              THEN [self EXCEPT !.model_loaded = FALSE, !.loads = 1]
              ELSE [self EXCEPT !.model = KerasModel(e.num_classes),
                                !.model_loaded = TRUE, !.loads = 1]
         ELSE [self EXCEPT !.loads = 0]

\* variant: load_model without its try/except
MLServiceInitLoadUncaught(self, e) ==
    LET checked == [self EXCEPT !.tensorflow_available = CheckTensorflow(e)]
    IN  IF checked.tensorflow_available /\ e.model_file /\ e.load_raises
        THEN Raise("OSError")
        ELSE Return(LoadModel(checked, e))

\* MLService.__init__ on the fresh object self: both methods it calls catch
\* Exception, so it returns
MLServiceInit(self, e) ==
    LET checked == [self EXCEPT !.tensorflow_available = CheckTensorflow(e)]
    IN  Return(LoadModel(checked, e))

\* get_model_status
GetModelStatus(self) ==
    [model_loaded |-> self.model_loaded,
     tensorflow_available |-> self.tensorflow_available,
     mode |-> IF self.model_loaded THEN "REAL_ML" ELSE "SIMULATION",
     classes_burkina |-> MALADIES_BURKINA,
     service_status |-> "OPERATIONAL"]

----------------------------------------------------------------------------
(* The state machine *)

NoImage == [decode |-> "", width |-> 0, height |-> 0,
            mode |-> "", format |-> "", bands |-> <<>>]
NoOutcome == [raised |-> FALSE, exc |-> "", value |-> NoValue]

\* no request in the route
NoRequest == [content_type |-> "", file_size |-> 0, image_data |-> NoImage]
NoResponse == [status_code |-> 0, handler |-> "", detail |-> "", body |-> <<>>]

Self == [model |-> model, model_loaded |-> model_loaded,
         tensorflow_available |-> tensorflow_available, loads |-> loads]

\* labels passed to _get_recommendations directly
ProbeLabels ==
    { <<"R", "o", "u", "i", "l", "l", "e", " ", "(", "M", "i", "l", ")">>,
      <<"U", "n", "k", "n", "o", "w", "n", " ", "D", "i", "s", "e", "a", "s", "e">>,
      <<"C", "h", "a", "r", "b", "o", "n", " ", "e", "t", " ", "r", "o", "u", "i", "l", "l", "e">>,
      <<"R", "O", "U", "I", "L", "L", "E">>,
      <<"r", "o", "u", "i", "l", "l">>,
      <<>>,
      INCONNU, ANALYSE_EN_ATTENTE }
    \cup {SIM_DISEASES[i] : i \in 1..Len(SIM_DISEASES)}
    \cup {GetAllDiseasesFlat[i] : i \in 1..Len(GetAllDiseasesFlat)}
    \cup {RECOMMENDATIONS[i][1] : i \in 1..Len(RECOMMENDATIONS)}

Callers == 1..NumCallers

\* the frame of a caller with no call in flight
IdleFrame ==
    [pc |-> "idle", image_data |-> NoImage, runtime |-> NoRuntime,
     processed_image |-> NoOutcome, steps |-> <<>>, result |-> NoOutcome]

CallIdle ==
    /\ op = "idle"
    /\ image_data = NoImage
    /\ processed_image = NoOutcome
    /\ steps = <<>>
    /\ base_probs = <<>>
    /\ runtime = NoRuntime
    /\ result = NoOutcome
    /\ disease_arg = <<>>
    /\ request = NoRequest
    /\ route_steps = <<>>
    /\ response = NoResponse

\* the module has been imported up to line 340: the class exists, the
\* singleton does not yet
Init ==
    /\ env \in Envs
    /\ phase = "new"
    /\ model = NoneModel
    /\ model_loaded = FALSE
    /\ tensorflow_available = FALSE
    /\ loads = 0
    /\ CallIdle
    /\ cache = <<>>
    /\ hits = 0
    /\ misses = 0
    /\ calls = [c \in Callers |-> IdleFrame]

\* ml_service = MLService()
Construct ==
    /\ phase = "new"
    /\ LET made == MLServiceInit(Self, env)
       IN  IF made.raised
           THEN /\ phase' = "failed"
                /\ UNCHANGED <<model, model_loaded, tensorflow_available, loads>>
           ELSE /\ phase' = "ready"
                /\ tensorflow_available' = made.value.tensorflow_available
                /\ model' = made.value.model
                /\ model_loaded' = made.value.model_loaded
                /\ loads' = loads + made.value.loads
    /\ UNCHANGED <<env, op, image_data, processed_image, steps, base_probs,
                   runtime, result, disease_arg, cacheVars, calls, routeVars>>

\* await ml_service.analyze_plant_image(data)
Analyze ==
    /\ phase = "ready"
    /\ op = "idle"
    /\ \E data \in Images :
         \E rt \in RuntimeChoices(Self, data) :
            \E run \in {AnalyzePlantImage(Self, data, rt)} :
                /\ image_data' = data
                /\ runtime' = rt
                /\ processed_image' = run.pre
                /\ steps' = run.steps
                /\ base_probs' = run.base_probs
                /\ result' = run.ret
                /\ model' = run.self.model
                /\ model_loaded' = run.self.model_loaded
                /\ tensorflow_available' = run.self.tensorflow_available
                /\ loads' = run.self.loads
    /\ op' = "analyze"
    /\ UNCHANGED <<env, phase, disease_arg, cacheVars, calls, routeVars>>

\* ml_service.get_model_status()
Status ==
    /\ phase = "ready"
    /\ op = "idle"
    /\ op' = "get_model_status"
    /\ result' = Return(GetModelStatus(Self))
    /\ UNCHANGED <<env, phase, model, model_loaded, tensorflow_available,
                   loads, image_data, processed_image, steps, base_probs,
                   runtime, disease_arg, cacheVars, calls, routeVars>>

\* ml_service._get_recommendations(disease)
Recommend ==
    /\ phase = "ready"
    /\ op = "idle"
    /\ \E disease \in ProbeLabels :
         /\ disease_arg' = disease
         /\ result' = Return(GetRecommendations(disease))
    /\ op' = "get_recommendations"
    /\ UNCHANGED <<env, phase, model, model_loaded, tensorflow_available,
                   loads, image_data, processed_image, steps, base_probs,
                   runtime, cacheVars, calls, routeVars>>

\* the caller takes the value (or the exception) and the call's frame is gone
Done ==
    /\ op # "idle"
    /\ op' = "idle"
    /\ image_data' = NoImage
    /\ processed_image' = NoOutcome
    /\ steps' = <<>>
    /\ base_probs' = <<>>
    /\ runtime' = NoRuntime
    /\ result' = NoOutcome
    /\ disease_arg' = <<>>
    /\ request' = NoRequest
    /\ route_steps' = <<>>
    /\ response' = NoResponse
    /\ UNCHANGED <<env, phase, model, model_loaded, tensorflow_available, loads,
                   cacheVars, calls>>

Next == Construct \/ Analyze \/ Status \/ Recommend \/ Done

Spec == Init /\ [][Next]_vars

----------------------------------------------------------------------------
(* The lru_cache of _get_recommendations, followed lookup by lookup *)

\* the labels looked up, in the order in which a run first asks for them
LookupLabels ==
    GetAllDiseasesFlat \o SIM_DISEASES
    \o [k \in 1..Len(RECOMMENDATIONS) |-> RECOMMENDATIONS[k][1]]
    \o << <<"U", "n", "k", "n", "o", "w", "n", " ", "D", "i", "s", "e", "a", "s", "e">>,
           <<"C", "h", "a", "r", "b", "o", "n", " ", "e", "t", " ", "r", "o", "u", "i", "l", "l", "e">>,
           <<"R", "O", "U", "I", "L", "L", "E">>,
           <<"r", "o", "u", "i", "l", "l">>,
           <<>>,
           INCONNU, ANALYSE_EN_ATTENTE >>

\* what the next lookup can ask for: the first label of LookupLabels that is
\* not cached (a miss; after an eviction this is a label asked for before),
\* or the least or the most recently used cached label (a hit)
LookupChoices ==
    (IF misses < LRU_MAXSIZE + CacheOverflow
     THEN LET absent == {k \in 1..Len(LookupLabels) :
                            \A i \in 1..Len(cache) : cache[i][1] # LookupLabels[k]}
          IN  {LookupLabels[k] : k \in {k \in absent : \A j \in absent : k <= j}}
     ELSE {})
    \cup (IF hits < MaxHits /\ cache # <<>>
          THEN {cache[1][1], cache[Len(cache)][1]}
          ELSE {})

\* the module has been imported in environment e: the singleton is as
\* MLService() left it and nothing has been called
ImportedIn(e) ==
    /\ env = e
    /\ phase = "ready"
    /\ LET made == MLServiceInit(
                       [model |-> NoneModel, model_loaded |-> FALSE,
                        tensorflow_available |-> FALSE, loads |-> 0], e).value
       IN  /\ model = made.model
           /\ model_loaded = made.model_loaded
           /\ tensorflow_available = made.tensorflow_available
           /\ loads = made.loads
    /\ CallIdle
    /\ cache = <<>>
    /\ hits = 0
    /\ misses = 0
    /\ calls = [c \in Callers |-> IdleFrame]

\* a service constructed where tensorflow does not import, nothing looked up yet
InitCache ==
    ImportedIn([tensorflow |-> "ImportError", model_file |-> FALSE,
                load_raises |-> FALSE, num_classes |-> 0])

\* ml_service._get_recommendations(disease), through its lru_cache
Lookup ==
    /\ phase = "ready"
    /\ op = "idle"
    /\ \E disease \in LookupChoices :
         \E got \in {CachedGetRecommendations(cache, disease)} :
            /\ disease_arg' = disease
            /\ result' = Return(got.value)
            /\ cache' = got.cache
            /\ hits' = IF got.hit THEN hits + 1 ELSE hits
            /\ misses' = IF got.hit THEN misses ELSE misses + 1
    /\ op' = "get_recommendations"
    /\ UNCHANGED <<env, phase, model, model_loaded, tensorflow_available,
                   loads, image_data, processed_image, steps, base_probs,
                   runtime, calls, routeVars>>

NextCache == Lookup \/ Done

SpecCache == InitCache /\ [][NextCache]_vars

----------------------------------------------------------------------------
(* Calls of analyze_plant_image in flight together, statement by statement *)

\* the images the callers send: bytes that do not decode, an image one
\* column too wide, and two well-formed images of different size and colour
CallImages ==
    {UndecodableBytes,
     [decode |-> "ok", width |-> MAX_IMAGE_SIZE + 1, height |-> MAX_IMAGE_SIZE,
      mode |-> "RGB", format |-> "JPEG", bands |-> <<MaxLevel, 0, 0>>],
     [decode |-> "ok", width |-> MAX_IMAGE_SIZE, height |-> MAX_IMAGE_SIZE,
      mode |-> "RGB", format |-> "JPEG", bands |-> <<MaxLevel, 0, 0>>],
     [decode |-> "ok", width |-> MAX_IMAGE_SIZE - 1, height |-> MAX_IMAGE_SIZE,
      mode |-> "RGB", format |-> "JPEG", bands |-> <<0, MaxLevel, 0>>]}

\* what the runtime does in one of these calls: predict raises, or the whole
\* probability is on the first or on the last class
CallRuntimeChoices(self, data) ==
    {rt \in RuntimeChoices(self, data) :
        /\ rt.predictions # <<>> =>
              One \in {rt.predictions[1], rt.predictions[Len(rt.predictions)]}
        /\ rt.dirichlet # <<>> =>
              One \in {rt.dirichlet[1], rt.dirichlet[Len(rt.dirichlet)]}}

\* no runtime, and a model with one output per label of the flat list
CallEnvs ==
    {e \in Envs : (e.tensorflow = "ImportError" /\ ~e.model_file)
                  \/ e.num_classes = Len(GetAllDiseasesFlat)}

InitCalls == \E e \in CallEnvs : ImportedIn(e)

\* where control goes after line 146: into the except clause when
\* _preprocess_image raised
PcAfterPreprocess(pre) == IF pre.raised THEN "excepting" ELSE "preprocessed"

\* variant: a failed analysis is tried again
PcAfterAnalysisRetry(body) == IF body.raised THEN "preprocessed" ELSE "returned"

\* where control goes after lines 149-152: the analysis returns to the
\* caller, or what it raised is caught at line 154
PcAfterAnalysis(body) == IF body.raised THEN "excepting" ELSE "returned"

\* variant: the array is kept in a field of the shared service, so a call
\* can pick up the array another call has just stored
TierInputShared(cs, c) ==
    LET others == {d \in DOMAIN cs : d # c /\ cs[d].pc = "preprocessed"}
    IN  IF others = {} THEN cs[c].processed_image.value
        ELSE cs[CHOOSE d \in others : TRUE].processed_image.value

\* the array the analysis of caller c is given: processed_image, a local of
\* that call
TierInput(cs, c) == cs[c].processed_image.value

\* the route awaits ml_service.analyze_plant_image(data)
CallStart(c) ==
    /\ phase = "ready"
    /\ calls[c].pc = "idle"
    /\ \E data \in CallImages :
         \E rt \in CallRuntimeChoices(Self, data) :
            calls' = [calls EXCEPT ![c] =
                        [IdleFrame EXCEPT !.pc = "called", !.image_data = data,
                                          !.runtime = rt]]
    /\ UNCHANGED <<env, phase, model, model_loaded, tensorflow_available, loads,
                   op, image_data, processed_image, steps, base_probs, runtime,
                   result, disease_arg, cacheVars, routeVars>>

\* line 146
StepPreprocess(c) ==
    /\ calls[c].pc = "called"
    /\ \E pre \in {PreprocessImage(calls[c].image_data)} :
         calls' = [calls EXCEPT ![c].processed_image = pre,
                                ![c].steps = @ \o <<"preprocess">>,
                                ![c].pc = PcAfterPreprocess(pre)]
    /\ UNCHANGED <<env, phase, model, model_loaded, tensorflow_available, loads,
                   op, image_data, processed_image, steps, base_probs, runtime,
                   result, disease_arg, cacheVars, routeVars>>

\* lines 149-152
StepAnalysis(c) ==
    /\ calls[c].pc = "preprocessed"
    /\ \E tier \in {IF UseRealModel(Self) THEN "real" ELSE "simulated"} :
         \E body \in {IF tier = "real"
                      THEN RealAnalysis(TierInput(calls, c), calls[c].image_data,
                                        calls[c].runtime)
                      ELSE SimulatedAnalysis(TierInput(calls, c), calls[c].runtime)} :
            \E self \in {SelfAfter(Self, body)} :
                /\ calls' = [calls EXCEPT
                                ![c].steps = @ \o <<tier>>,
                                ![c].result = IF body.raised THEN @ ELSE body,
                                ![c].pc = PcAfterAnalysis(body)]
                /\ model' = self.model
                /\ model_loaded' = self.model_loaded
                /\ tensorflow_available' = self.tensorflow_available
                /\ loads' = self.loads
    /\ UNCHANGED <<env, phase,
                   op, image_data, processed_image, steps, base_probs, runtime,
                   result, disease_arg, cacheVars, routeVars>>

\* lines 154-157
StepExcept(c) ==
    /\ calls[c].pc = "excepting"
    /\ calls' = [calls EXCEPT
                    ![c].steps = @ \o <<"fallback">>,
                    ![c].result = SimulatedAnalysisFallback(calls[c].image_data),
                    ![c].pc = "returned"]
    /\ UNCHANGED <<env, phase, model, model_loaded, tensorflow_available, loads,
                   op, image_data, processed_image, steps, base_probs, runtime,
                   result, disease_arg, cacheVars, routeVars>>

\* the route has the result and the coroutine's frame is gone
CallEnd(c) ==
    /\ calls[c].pc = "returned"
    /\ calls' = [calls EXCEPT ![c] = IdleFrame]
    /\ UNCHANGED <<env, phase, model, model_loaded, tensorflow_available, loads,
                   op, image_data, processed_image, steps, base_probs, runtime,
                   result, disease_arg, cacheVars, routeVars>>

\* one statement of caller c's coroutine
StepOf(c) == StepPreprocess(c) \/ StepAnalysis(c) \/ StepExcept(c)

NextCalls == \E c \in Callers : CallStart(c) \/ StepOf(c) \/ CallEnd(c)

\* the event loop runs every started coroutine on: between two statements of
\* analyze_plant_image nothing waits for anything
SpecCalls ==
    /\ InitCalls
    /\ [][NextCalls]_vars
    /\ \A c \in Callers : WF_vars(StepOf(c))

----------------------------------------------------------------------------
(* Vocabulary of the properties *)

\* an image that decodes and is within the size ceiling
WellFormed(img) == img.decode = "ok" /\ img.width <= 2048 /\ img.height <= 2048

ResultFields == {"disease", "confidence", "all_predictions", "recommendations", "metadata"}
RecoFields == {"traitement", "prevention", "urgence"}

\* the call handed a PredictionResult to its caller
IsPredictionResult(r) == ~r.raised /\ DOMAIN r.value = ResultFields

SourceOf(r) == r.value.metadata.analysis_type

\* the record RECOMMENDATIONS holds under a key
RecordOfKey(key) ==
    RECOMMENDATIONS[CHOOSE k \in 1..Len(RECOMMENDATIONS) : RECOMMENDATIONS[k][1] = key][2]

\* disease key k occurs in the lowercased label
KeyOccurs(k, label) == IsSubstring(RECOMMENDATIONS[k][1], StrLower(label))
NoKeyOccurs(label) == \A k \in 1..Len(RECOMMENDATIONS) : ~KeyOccurs(k, label)

LastStep == IF steps = <<>> THEN "" ELSE steps[Len(steps)]

ROUILLE_MIL == <<"R", "o", "u", "i", "l", "l", "e", " ", "(", "M", "i", "l", ")">>
UNKNOWN_DISEASE == <<"U", "n", "k", "n", "o", "w", "n", " ", "D", "i", "s", "e", "a", "s", "e">>
CHARBON_ET_ROUILLE ==
    <<"C", "h", "a", "r", "b", "o", "n", " ", "e", "t", " ", "r", "o", "u", "i", "l", "l", "e">>
MILDIOU_MAIS == <<"M", "i", "l", "d", "i", "o", "u", " ", "(", "M", "a", "i", "s", ")">>

----------------------------------------------------------------------------
(* Properties *)

\* C1: for an image that decodes and whose width and height are at most
\* 2048, analyze_plant_image hands back a PredictionResult and raises
\* nothing, with the model loaded or not, and also when the analysis it
\* chose raised.
C1_AnalyzeTotalOnWellFormed ==
    (op = "analyze" /\ WellFormed(image_data)) => IsPredictionResult(result)

\* C1 witness: the model is loaded, predict raised on a well-formed image,
\* and the caller still got a PredictionResult.
C1_Witness ==
    /\ op = "analyze"
    /\ WellFormed(image_data)
    /\ model_loaded
    /\ runtime.predict_raises
    /\ steps = <<"preprocess", "real", "fallback">>
    /\ IsPredictionResult(result)

\* C2 (as claimed): when _preprocess_image raises, analyze_plant_image ends
\* in that ValueError and produces no PredictionResult; and an error crosses
\* the boundary only in that case.
C2_InvalidImagePropagates ==
    op = "analyze" =>
        /\ processed_image.raised => (result.raised /\ result.exc = "ValueError")
        /\ result.raised => (processed_image.raised /\ result.exc = "ValueError")

\* C3 (as claimed): when the model is loaded and predict raises on a
\* well-formed image, the call returns the heuristic estimator's result,
\* tagged SIMULATION.
C3_PredictFailureFallsToSimulation ==
    (op = "analyze" /\ WellFormed(image_data) /\ model_loaded /\ runtime.predict_raises)
        => (/\ IsPredictionResult(result)
            /\ SourceOf(result) = "SIMULATION"
            /\ "simulated" \in {steps[i] : i \in 1..Len(steps)})

C5_NoModelMeansSimulation ==
    (phase = "ready" /\ (~env.model_file \/ env.tensorflow # "ok")) =>
        /\ ~model_loaded
        /\ op = "get_model_status" =>
              (result.value.mode = "SIMULATION" /\ result.value.model_loaded = FALSE)
        /\ (op = "analyze" /\ WellFormed(image_data)) =>
              /\ IsPredictionResult(result)
              /\ SourceOf(result) = "SIMULATION"
              /\ DOMAIN result.value.recommendations = RecoFields
              /\ result.value.disease \in DOMAIN result.value.all_predictions

\* C5 witness: tensorflow imports, the model file is absent, and a
\* well-formed image was analysed by the heuristic estimator.
C5_Witness ==
    /\ op = "analyze"
    /\ env.tensorflow = "ok"
    /\ ~env.model_file
    /\ WellFormed(image_data)
    /\ steps = <<"preprocess", "simulated">>
    /\ SourceOf(result) = "SIMULATION"

\* C6: with the model loaded and predict returning a vector whose first
\* highest entry is at 0-based index i with value c, for every i inside the
\* flattened taxonomy, the result has disease = flatten()[i], confidence = c
\* and source REAL_ML; index 5 is "Mildiou (Mais)".
C6_RealPredictionMapsIndex ==
    (op = "analyze" /\ model_loaded /\ WellFormed(image_data) /\ ~runtime.predict_raises) =>
        \A i \in 0..(Len(GetAllDiseasesFlat) - 1) :
            (/\ i + 1 <= Len(runtime.predictions)
             /\ \A j \in 1..Len(runtime.predictions) :
                    /\ runtime.predictions[j] <= runtime.predictions[i + 1]
                    /\ j < i + 1 => runtime.predictions[j] < runtime.predictions[i + 1])
            => /\ IsPredictionResult(result)
               /\ result.value.disease = GetAllDiseasesFlat[i + 1]
               /\ result.value.confidence = runtime.predictions[i + 1]
               /\ SourceOf(result) = "REAL_ML"
               /\ i = 5 => result.value.disease = MILDIOU_MAIS

\* C6 witness: a 16-output model put its (tied) highest probability first at
\* index 5 and the result names "Mildiou (Mais)".
C6_Witness ==
    /\ op = "analyze"
    /\ model_loaded
    /\ model.num_classes = 16
    /\ ~runtime.predict_raises
    /\ Len(runtime.predictions) = 16
    /\ runtime.predictions[6] = Half
    /\ runtime.predictions[7] = Half
    /\ result.value.disease = MILDIOU_MAIS
    /\ result.value.confidence = Half
    /\ SourceOf(result) = "REAL_ML"

\* C7 (as claimed): when the model's output vector is not as long as
\* flatten(), the real analysis fails, so the call that ran it ends in the
\* fallback and never returns a REAL_ML result.
C7_MismatchFailsPredict ==
    (op = "analyze" /\ "real" \in {steps[i] : i \in 1..Len(steps)}
        /\ model.num_classes # Len(GetAllDiseasesFlat))
        => (LastStep = "fallback" /\ SourceOf(result) # "REAL_ML")

C9_NormalizeRejectsExactly ==
    op = "analyze" =>
        /\ processed_image.raised <=>
              (image_data.decode # "ok" \/ image_data.width > 2048 \/ image_data.height > 2048)
        /\ processed_image.raised => processed_image.exc = "ValueError"
        /\ ~processed_image.raised =>
              /\ processed_image.value.height = 224
              /\ processed_image.value.width = 224
              /\ processed_image.value.channels = 3
              /\ Len(processed_image.value.avg_color) = 3

\* C9 witness: a palette image of exactly 2048 x 2048 was accepted as 3 channels.
C9_Witness ==
    /\ op = "analyze"
    /\ image_data.decode = "ok"
    /\ image_data.mode = "P"
    /\ image_data.width = 2048
    /\ image_data.height = 2048
    /\ ~processed_image.raised
    /\ processed_image.value.channels = 3

\* C10: _get_recommendations returns the record of the first key, in the
\* declared order of RECOMMENDATIONS, that occurs in the lowercased label,
\* and the generic record when none occurs; "Rouille (Mil)" has the rouille
\* record, "Unknown Disease" the generic one.
C10_FirstDeclaredKeyWins ==
    op = "get_recommendations" =>
        /\ ~result.raised
        /\ \A k \in 1..Len(RECOMMENDATIONS) :
              (KeyOccurs(k, disease_arg) /\ \A j \in 1..(k - 1) : ~KeyOccurs(j, disease_arg))
                  => result.value = RECOMMENDATIONS[k][2]
        /\ NoKeyOccurs(disease_arg) => result.value = GENERIC_RECO
        /\ disease_arg = ROUILLE_MIL => result.value = RecordOfKey(K_ROUILLE)
        /\ disease_arg = UNKNOWN_DISEASE => result.value = GENERIC_RECO

\* C10 witness: a label in which "charbon" comes first and "rouille" second
\* got the record of "rouille", the key declared first.
C10_Witness ==
    /\ op = "get_recommendations"
    /\ disease_arg = CHARBON_ET_ROUILLE
    /\ KeyOccurs(1, disease_arg)
    /\ KeyOccurs(3, disease_arg)
    /\ result.value = RecordOfKey(K_ROUILLE)

----------------------------------------------------------------------------
(* Taxonomy, construction and status *)

\* the pairs <<p, m>>: disease m of crop p in MALADIES_BURKINA
TaxonomyPairs ==
    UNION {{<<p, m>> : m \in 1..Len(MALADIES_BURKINA[p][2])} :
                p \in 1..Len(MALADIES_BURKINA)}

\* the 1-based position in the flat list of disease m of crop p
RECURSIVE FlatIndex(_, _)
FlatIndex(p, m) ==
    IF p = 1 THEN m ELSE Len(MALADIES_BURKINA[p - 1][2]) + FlatIndex(p - 1, m)

StepsRun == {steps[i] : i \in 1..Len(steps)}

\* C11: the flat list has one label per (crop, disease) pair, in declaration
\* order; the label at the pair's position reads "disease (crop)" once
\* lowercased, and _get_recommendations on that label returns the record
\* stored under that disease, not the generic record and not the record of
\* another key, both on a direct call and inside a REAL_ML result.
C11_TaxonomyRoundTrip ==
    /\ op = "get_recommendations" =>
          /\ Len(GetAllDiseasesFlat) = Cardinality(TaxonomyPairs)
          /\ \A pm \in TaxonomyPairs :
                LET plante == MALADIES_BURKINA[pm[1]][1]
                    maladie == MALADIES_BURKINA[pm[1]][2][pm[2]]
                    label == GetAllDiseasesFlat[FlatIndex(pm[1], pm[2])]
                IN  disease_arg = label =>
                       /\ StrLower(label) = maladie \o <<" ", "(">> \o plante \o <<")">>
                       /\ result.value = RecordOfKey(maladie)
                       /\ result.value # GENERIC_RECO
                       /\ \A k \in 1..Len(RECOMMENDATIONS) :
                             RECOMMENDATIONS[k][1] # maladie =>
                                result.value # RECOMMENDATIONS[k][2]
    /\ (op = "analyze" /\ model_loaded /\ LastStep = "real") =>
          \A pm \in TaxonomyPairs :
              result.value.disease = GetAllDiseasesFlat[FlatIndex(pm[1], pm[2])] =>
                 result.value.recommendations =
                    RecordOfKey(MALADIES_BURKINA[pm[1]][2][pm[2]])

\* C11 witness: the label "Mildiou (Mais)", in which the crop name "mil"
\* also occurs, was looked up and gave the record stored under "mildiou".
C11_Witness ==
    /\ op = "get_recommendations"
    /\ disease_arg = MILDIOU_MAIS
    /\ disease_arg = GetAllDiseasesFlat[FlatIndex(2, 2)]
    /\ result.value = RecordOfKey(K_MILDIOU)

\* C12: the service is loaded only if tensorflow imports, the model file
\* exists and load_model returns; the constructor always returns; and when
\* one of the three is missing get_model_status reports model_loaded false
\* and mode SIMULATION (mode is REAL_ML exactly when model_loaded).
C12_AvailableOnlyWithRuntimeAndArtifact ==
    phase # "new" =>
        /\ phase = "ready"
        /\ model_loaded =>
              /\ env.tensorflow = "ok" /\ env.model_file /\ ~env.load_raises
              /\ tensorflow_available /\ ~model.is_none
        /\ op = "get_model_status" =>
              /\ result.value.model_loaded = model_loaded
              /\ (result.value.mode = "REAL_ML") <=> model_loaded
              /\ result.value.mode \in {"REAL_ML", "SIMULATION"}
              /\ (env.tensorflow # "ok" \/ ~env.model_file \/ env.load_raises) =>
                    (~result.value.model_loaded /\ result.value.mode = "SIMULATION")

\* C12 witness: the model file is there, tensorflow does not import, and
\* get_model_status answered SIMULATION.
C12_Witness ==
    /\ op = "get_model_status"
    /\ env.tensorflow = "ImportError"
    /\ env.model_file
    /\ ~result.value.model_loaded
    /\ result.value.mode = "SIMULATION"

\* C13: when load_model raises on the artifact (or the import of tensorflow
\* raises something other than ImportError), the constructor still returns,
\* the service is not loaded and holds no model, the load was tried once,
\* and calls are served in simulation mode.
C13_LoadExceptionCaught ==
    /\ (phase # "new" /\ env.tensorflow = "ok" /\ env.model_file /\ env.load_raises) =>
          /\ phase = "ready"
          /\ loads = 1
          /\ ~model_loaded /\ model.is_none /\ ~UseRealModel(Self)
          /\ op = "get_model_status" => result.value.mode = "SIMULATION"
          /\ op = "analyze" => "real" \notin StepsRun
    /\ (phase # "new" /\ env.tensorflow = "Exception") =>
          /\ phase = "ready"
          /\ ~tensorflow_available /\ ~model_loaded /\ loads = 0

\* C13 witness: load_model raised at construction and a well-formed image
\* was then analysed by the heuristic estimator.
C13_Witness ==
    /\ op = "analyze"
    /\ env.load_raises
    /\ loads = 1
    /\ ~model_loaded
    /\ steps = <<"preprocess", "simulated">>
    /\ SourceOf(result) = "SIMULATION"

\* C14: once the constructor has returned, no call changes model_loaded,
\* the model, the tensorflow flag, or what get_model_status reports (mode
\* and taxonomy included).
C14_StatusFixedAfterConstruction ==
    [][phase = "ready" =>
          /\ model_loaded' = model_loaded
          /\ model' = model
          /\ tensorflow_available' = tensorflow_available
          /\ GetModelStatus(Self)' = GetModelStatus(Self)]_vars

\* C14 witness: predict raised in a call on a loaded service, the call fell
\* back, and the service still reports REAL_ML.
C14_Witness ==
    /\ op = "analyze"
    /\ runtime.predict_raises
    /\ LastStep = "fallback"
    /\ model_loaded
    /\ GetModelStatus(Self).mode = "REAL_ML"

\* C15 (as claimed): once a call has run the model and got a vector whose
\* length is not that of the flat list, the service is marked not loaded:
\* later calls skip the model and get_model_status does not report REAL_ML.
C15_MismatchMarksUnavailable ==
    (op = "analyze" /\ "real" \in StepsRun /\ ~runtime.predict_raises
        /\ Len(runtime.predictions) # Len(GetAllDiseasesFlat))
        => (/\ ~model_loaded
            /\ ~UseRealModel(Self)
            /\ GetModelStatus(Self).mode = "SIMULATION")

\* C17: tf.keras.models.load_model is called at most once, by the
\* constructor, exactly once when tensorflow imports and the model file
\* exists (a loaded service has had exactly one load), and no call made after
\* construction changes the number of loads.
C17_LoadedOnceAtConstruction ==
    [][/\ phase = "new" =>
             /\ loads' <= 1
             /\ model_loaded' => loads' = 1
             /\ (loads' = 1) <=> (env.tensorflow = "ok" /\ env.model_file)
       /\ phase = "ready" => loads' = loads]_vars

\* C17 witness: after one load, a call whose real analysis raised has
\* returned and the number of loads is still one.
C17_Witness ==
    /\ op = "analyze"
    /\ loads = 1
    /\ steps = <<"preprocess", "real", "fallback">>

\* C18: with r, g, b the channel means and s their sum, the heuristic
\* estimator picks the profile with the highest prior on "Rouille" when
\* r/s > 0.4, else the profile with the highest prior on "Plante Sain" when
\* g/s > 0.4, else the balanced profile; a ratio of exactly 0.4 selects
\* nothing and s = 0 gives the balanced profile.
C18_ProfileFromChannelMeans ==
    (op = "analyze" /\ LastStep = "simulated") =>
        LET c == processed_image.value.avg_color
            s == c[1] + c[2] + c[3]
            red == 5 * c[1] > 2 * s
            green == 5 * c[2] > 2 * s
        IN  /\ base_probs = IF red THEN <<10, 50, 15, 10, 15>>
                            ELSE IF green THEN <<60, 15, 10, 5, 10>>
                            ELSE <<20, 25, 20, 15, 20>>
            /\ red => \A k \in 1..Len(SIM_DISEASES) :
                          base_probs[k] >= base_probs[ArgMax(base_probs) + 1]
                             => SIM_DISEASES[k] = <<"R", "o", "u", "i", "l", "l", "e">>
            /\ s = 0 => base_probs = <<20, 25, 20, 15, 20>>

\* C18 witness: the red mean is exactly 0.4 of a non-zero sum and the
\* balanced profile was picked.
C18_Witness ==
    /\ op = "analyze"
    /\ LastStep = "simulated"
    /\ 5 * processed_image.value.avg_color[1] = 2 * Sum3(processed_image.value.avg_color)
    /\ Sum3(processed_image.value.avg_color) > 0
    /\ base_probs = <<20, 25, 20, 15, 20>>

\* where red and green both exceed 0.4 and the red profile was picked
C18_BothAboveRedWins ==
    /\ op = "analyze"
    /\ LastStep = "simulated"
    /\ processed_image.value.avg_color = <<MaxLevel, MaxLevel, 0>>
    /\ base_probs = <<10, 50, 15, 10, 15>>

----------------------------------------------------------------------------
(* The recommendation cache *)

\* the record the substring rule gives for a label: that of the first key of
\* RECOMMENDATIONS occurring in the lowercased label, else the generic record
SubstringRule(label) ==
    IF NoKeyOccurs(label) THEN GENERIC_RECO
    ELSE RECOMMENDATIONS[CHOOSE k \in 1..Len(RECOMMENDATIONS) :
            KeyOccurs(k, label) /\ \A j \in 1..(k - 1) : ~KeyOccurs(j, label)][2]

\* C19: through the lru_cache, every lookup returns the record the substring
\* rule gives for its label, on a miss, on a hit and on a label evicted
\* before; the entry the lookup leaves as most recently used holds that
\* record under its own label; no label is cached twice; and the cache never
\* holds more than 32 entries.
C19_CachedLookupEqualsUncached ==
    /\ Len(cache) <= LRU_MAXSIZE
    /\ \A i \in 1..Len(cache) : \A j \in 1..Len(cache) :
          cache[i][1] = cache[j][1] => i = j
    /\ op = "get_recommendations" =>
          /\ result.value = SubstringRule(disease_arg)
          /\ cache # <<>>
          /\ cache[Len(cache)] = <<disease_arg, result.value>>

\* C19 witness: 32 labels filled the cache, the 33rd lookup evicted
\* "Sain (Mil)", and the 34th asked for "Sain (Mil)" again and got the record
\* stored under "sain" while the cache stayed at 32 entries.
C19_Witness ==
    /\ op = "get_recommendations"
    /\ misses = LRU_MAXSIZE + 2
    /\ hits = 0
    /\ disease_arg = GetAllDiseasesFlat[1]
    /\ result.value = RecordOfKey(K_SAIN)
    /\ Len(cache) = LRU_MAXSIZE
    /\ cache[Len(cache)][1] = disease_arg

\* where a hit on the least recently used entry kept it from being evicted
C19_HitKeepsEntry ==
    /\ op = "get_recommendations"
    /\ misses = LRU_MAXSIZE + 1
    /\ hits = 1
    /\ \E i \in 1..Len(cache) : cache[i][1] = GetAllDiseasesFlat[1]
    /\ disease_arg = LookupLabels[LRU_MAXSIZE + 1]

----------------------------------------------------------------------------
(* Calls in flight together *)

\* the steps caller c has run
StepsOf(c) == {calls[c].steps[i] : i \in 1..Len(calls[c].steps)}

\* C16: whatever the interleaving of the callers' statements, a call that
\* has preprocessed holds the array of its own image, a call that has
\* returned holds what analyze_plant_image gives for its own image and its
\* own draw of the runtime on the service as constructed, and the fields of
\* the shared service are those the constructor left.
C16_CallsDoNotInterfere ==
    /\ \A c \in Callers :
          /\ calls[c].pc \in {"preprocessed", "excepting", "returned"} =>
                calls[c].processed_image = PreprocessImage(calls[c].image_data)
          /\ calls[c].pc = "returned" =>
                /\ calls[c].result =
                      AnalyzePlantImage(Self, calls[c].image_data, calls[c].runtime).ret
                /\ calls[c].steps =
                      AnalyzePlantImage(Self, calls[c].image_data, calls[c].runtime).steps
                /\ SourceOf(calls[c].result) = "REAL_ML" =>
                      /\ calls[c].result.value.metadata.width = calls[c].image_data.width
                      /\ calls[c].result.value.metadata.height = calls[c].image_data.height
                /\ SourceOf(calls[c].result) = "SIMULATION" =>
                      /\ calls[c].result.value.metadata.avg_red = calls[c].image_data.bands[1]
                      /\ calls[c].result.value.metadata.avg_green = calls[c].image_data.bands[2]
    /\ Self = MLServiceInit([model |-> NoneModel, model_loaded |-> FALSE,
                             tensorflow_available |-> FALSE, loads |-> 0], env).value
    /\ GetModelStatus(Self).classes_burkina = MALADIES_BURKINA

\* C16 witness: two calls on different well-formed images are in flight, the
\* second has its array and the first has returned a SIMULATION result
\* carrying the colour means of its own image.
C16_Witness ==
    /\ calls[1].pc = "returned"
    /\ calls[2].pc = "preprocessed"
    /\ WellFormed(calls[1].image_data)
    /\ calls[1].image_data # calls[2].image_data
    /\ SourceOf(calls[1].result) = "SIMULATION"
    /\ calls[1].result.value.metadata.avg_red = calls[1].image_data.bands[1]
    /\ calls[1].result.value.metadata.avg_red # calls[2].image_data.bands[1]

\* C20: a call runs _preprocess_image once, then at most one analysis, once,
\* then at most one fallback; a returned call holds exactly one outcome, a
\* PredictionResult tagged REAL_ML, SIMULATION or FALLBACK; and every call
\* that has started returns.
C20_CallTerminates ==
    /\ [](\A c \in Callers :
            /\ Len(calls[c].steps) <= 3
            /\ \A i \in 1..Len(calls[c].steps) : \A j \in 1..Len(calls[c].steps) :
                  calls[c].steps[i] = calls[c].steps[j] => i = j
            /\ ~({"real", "simulated"} \subseteq StepsOf(c))
            /\ calls[c].steps # <<>> => calls[c].steps[1] = "preprocess"
            /\ calls[c].pc = "returned" =>
                  /\ IsPredictionResult(calls[c].result)
                  /\ SourceOf(calls[c].result) \in {"REAL_ML", "SIMULATION", "FALLBACK"})
    /\ \A c \in Callers : (calls[c].pc = "called") ~> (calls[c].pc = "returned")

\* C20 witness: a call whose real analysis raised has returned after
\* preprocessing once, trying the model once and falling back once.
C20_Witness ==
    /\ calls[1].pc = "returned"
    /\ calls[1].steps = <<"preprocess", "real", "fallback">>
    /\ SourceOf(calls[1].result) = "FALLBACK"

----------------------------------------------------------------------------
(* The result of a call *)

\* C21: every PredictionResult carries the source tag and the
\* width, height and format of the original image, whichever analysis made it.
C21_MetadataCarriesDimensions ==
    (op = "analyze" /\ IsPredictionResult(result)) =>
        /\ SourceOf(result) \in {"REAL_ML", "SIMULATION", "FALLBACK"}
        /\ {"width", "height", "format"} \subseteq DOMAIN result.value.metadata
        /\ result.value.metadata.width = image_data.width
        /\ result.value.metadata.height = image_data.height
        /\ result.value.metadata.format = image_data.format

\* what the three metadata dictionaries of the code hold: each has the tag of
\* the analysis that made it; only the REAL_ML one has the width, height and
\* format of the original image (with model_version); the SIMULATION one has
\* the three colour means of the normalized image and the FALLBACK one only
\* error = "true".
MetadataPerPath ==
    (op = "analyze" /\ IsPredictionResult(result)) =>
        LET metadata == result.value.metadata
        IN  /\ "analysis_type" \in DOMAIN metadata
            /\ metadata.analysis_type =
                  CASE LastStep = "real" -> "REAL_ML"
                    [] LastStep = "simulated" -> "SIMULATION"
                    [] OTHER -> "FALLBACK"
            /\ LastStep = "real" =>
                  /\ DOMAIN metadata =
                        {"analysis_type", "width", "height", "format", "model_version"}
                  /\ metadata.width = image_data.width
                  /\ metadata.height = image_data.height
                  /\ metadata.format = image_data.format
            /\ LastStep = "simulated" =>
                  /\ DOMAIN metadata =
                        {"analysis_type", "avg_red", "avg_green", "avg_blue"}
                  /\ <<metadata.avg_red, metadata.avg_green, metadata.avg_blue>>
                        = processed_image.value.avg_color
            /\ LastStep = "fallback" =>
                  /\ DOMAIN metadata = {"analysis_type", "error"}
                  /\ metadata.error = "true"

\* a well-formed image was analysed by the heuristic estimator and the
\* result's metadata has the tag and the colour means but no width
SimulationWithoutDimensions ==
    /\ op = "analyze"
    /\ WellFormed(image_data)
    /\ IsPredictionResult(result)
    /\ SourceOf(result) = "SIMULATION"
    /\ "avg_red" \in DOMAIN result.value.metadata
    /\ "width" \notin DOMAIN result.value.metadata

\* C22: in every PredictionResult the disease is a key of
\* all_predictions, the confidence is the value stored under it, and no
\* value of all_predictions is higher.
C22_ConfidenceIsMaxOfPredictions ==
    (op = "analyze" /\ IsPredictionResult(result)) =>
        /\ result.value.disease \in DOMAIN result.value.all_predictions
        /\ result.value.confidence = result.value.all_predictions[result.value.disease]
        /\ \A d \in DOMAIN result.value.all_predictions :
              result.value.all_predictions[d] <= result.value.confidence

C23_TierRaised ==
    /\ op = "analyze"
    /\ ~processed_image.raised
    /\ runtime.predict_raises
    /\ SourceOf(result) = "FALLBACK"

----------------------------------------------------------------------------
(* POST /analyze: the route analyze_plant around analyze_plant_image *)

SizeSlack == 1

MAX_FILE_SIZE == 10485760
MIN_FILE_SIZE == 100
ALLOWED_CONTENT_TYPES == {"image/jpeg", "image/jpg", "image/png", "image/webp"}

\* file.content_type of the upload: "" is an upload that declares none
ContentTypes ==
    {"", "unknown", "image/jpeg", "image/webp", "image/gif", "text/plain"}

\* len(image_data): around the two limits
FileSizes ==
    ((MIN_FILE_SIZE - SizeSlack)..MIN_FILE_SIZE)
    \cup (MAX_FILE_SIZE..(MAX_FILE_SIZE + SizeSlack))

\* the images uploaded: those of CallImages and one whose header parses but
\* whose pixel data does not load
RouteImages ==
    CallImages
    \cup {[decode |-> "truncated", width |-> MAX_IMAGE_SIZE, height |-> MAX_IMAGE_SIZE,
           mode |-> "RGB", format |-> "JPEG", bands |-> <<>>]}

Requests ==
    [content_type : ContentTypes, file_size : FileSizes, image_data : RouteImages]

\* raise HTTPException(status_code=..., detail=...)
HTTPException(status_code, detail) ==
    [raised |-> TRUE, exc |-> "HTTPException",
     value |-> [status_code |-> status_code, detail |-> detail]]

\* variant: a file of exactly the limit is too large
FileTooLargeInclusive(file_size) == file_size >= MAX_FILE_SIZE

\* the test of line 76
FileTooLarge(file_size) == file_size > MAX_FILE_SIZE

\* the test of line 83
FileTooSmall(file_size) == file_size < MIN_FILE_SIZE

\* Image.open(io.BytesIO(image_data)) of line 96 returns: PIL reads the
\* header only, the pixel data is not loaded
ImageOpens(data) == data.decode # "undecodable"

\* lines 52-109: the statements run, the last one being the check that
\* raised if one did, and the bytes handed on or the HTTPException raised
Validations(req) ==
    LET content_type == IF req.content_type = "" THEN "unknown" ELSE req.content_type
    IN  IF content_type # "unknown" /\ content_type \notin ALLOWED_CONTENT_TYPES
        THEN [steps |-> <<"content_type">>,
              outcome |-> HTTPException(400, "Type de fichier non supporte")]
        ELSE IF FileTooLarge(req.file_size)
        THEN [steps |-> <<"content_type", "read", "max_size">>,
              outcome |-> HTTPException(413, "Fichier trop grand")]
        ELSE IF FileTooSmall(req.file_size)
        THEN [steps |-> <<"content_type", "read", "max_size", "min_size">>,
              outcome |-> HTTPException(400, "Fichier trop petit ou vide")]
        ELSE IF ~ImageOpens(req.image_data)
        THEN [steps |-> <<"content_type", "read", "max_size", "min_size", "open">>,
              outcome |-> HTTPException(400, "Fichier n'est pas une image valide")]
        ELSE [steps |-> <<"content_type", "read", "max_size", "min_size", "open">>,
              outcome |-> Return(req.image_data)]

\* the dict weather_recommendations of generate_recommendations, as its
\* items() in insertion order; the second text precedes "(confiance ...)"
WEATHER_RECOMMENDATIONS ==
    << <<K_ROUILLE, <<"Conditions humides favorables au developpement de la rouille",
                      "Traitement recommande tot le matin par temps sec">> >>,
       <<K_MILDIOU, <<"Temperatures fraiches et humidite elevee - conditions ideales pour le mildiou",
                      "Appliquez le traitement en fin de journee">> >>,
       <<K_CHARBON, <<"Conditions chaudes et humides favorables au charbon",
                      "Traitement preventif urgent recommande">> >>,
       <<K_CERCOSPORIOSE, <<"Humidite persistante favorable a la cercosporiose",
                            "Traitement efficace par temps sec apres la rosee">> >>,
       <<K_SAIN, <<"Conditions optimales pour la croissance",
                   "Continuez les bonnes pratiques, surveillance reguliere">> >> >>

WEATHER_DEFAULT ==
    <<"Conditions de croissance normales",
      "Surveillance et pratiques culturales adaptees">>

\* line 236, confidence in units of 1/One
ConfidenceLevel(confidence) ==
    IF 10 * confidence > 8 * One THEN "elevee"
    ELSE IF 10 * confidence > 6 * One THEN "moyenne"
    ELSE "faible"

RECURSIVE WeatherScan(_, _)
\* the loop of lines 261-263 from item k on, then the return of line 265
WeatherScan(k, disease_lower) ==
    IF k > Len(WEATHER_RECOMMENDATIONS) THEN WEATHER_DEFAULT
    ELSE IF IsSubstring(WEATHER_RECOMMENDATIONS[k][1], disease_lower)
         THEN WEATHER_RECOMMENDATIONS[k][2]
         ELSE WeatherScan(k + 1, disease_lower)

\* generate_recommendations: <<weather_impact, recommendation>>, the
\* recommendation as its text and the confidence level formatted into it
GenerateRecommendations(disease_name, confidence) ==
    CHOOSE pair \in {<<texts[1], <<texts[2], ConfidenceLevel(confidence)>> >> :
                        texts \in {WeatherScan(1, StrLower(disease_name))}} : TRUE

\* lines 123-140 on the PredictionResult: the AnalysisResponse without its
\* timestamp, or the KeyError of a recommendations dict that lacks a key
BuildResponse(ml_result) ==
    IF ~({"traitement", "prevention", "urgence"} \subseteq DOMAIN ml_result.recommendations)
    THEN Raise("KeyError")
    ELSE LET generated == GenerateRecommendations(ml_result.disease, ml_result.confidence)
         IN  Return([disease |-> [name |-> ml_result.disease,
                                  confidence |-> ml_result.confidence,
                                  treatment |-> ml_result.recommendations.traitement,
                                  prevention |-> ml_result.recommendations.prevention,
                                  urgency |-> ml_result.recommendations.urgence],
                     weather_impact |-> generated[1],
                     recommendation |-> generated[2]])

\* lines 145-173: the answer to what the try block did
ExceptClauses(tried) ==
    IF ~tried.raised
    THEN [status_code |-> 200, handler |-> "", detail |-> "", body |-> tried.value]
    ELSE IF tried.exc = "HTTPException"
    THEN [status_code |-> tried.value.status_code, handler |-> "HTTPException",
          detail |-> tried.value.detail, body |-> <<>>]
    ELSE IF tried.exc = "ValueError"
    THEN [status_code |-> 400, handler |-> "ValueError",
          detail |-> "Image invalide", body |-> <<>>]
    ELSE [status_code |-> 500, handler |-> "Exception",
          detail |-> "Erreur interne du serveur", body |-> <<>>]

\* the frame of analyze_plant_image in a request that did not call it
NoRun(self) ==
    [pre |-> NoOutcome, tier |-> "none", body |-> NoOutcome, ret |-> NoOutcome,
     base_probs |-> <<>>, self |-> self, steps |-> <<>>]

\* analyze_plant: the statements run, the call of analyze_plant_image when
\* line 114 was reached, and the answer
AnalyzePlant(self, req, rt) ==
    LET checked == Validations(req)
    IN  IF checked.outcome.raised
        THEN [called |-> FALSE, run |-> NoRun(self), steps |-> checked.steps,
              response |-> ExceptClauses(checked.outcome)]
        ELSE LET run == AnalyzePlantImage(self, checked.outcome.value, rt)
                 tried == IF run.ret.raised THEN run.ret
                          ELSE BuildResponse(run.ret.value)
             IN  [called |-> TRUE, run |-> run,
                  steps |-> checked.steps \o <<"analyze">>
                            \o (IF run.ret.raised THEN <<>>
                                ELSE <<"recommendations", "response">>),
                  response |-> ExceptClauses(tried)]

\* the service constructed without a runtime, or with a model of as many
\* outputs as the flat list has labels, or of one more
RouteEnvs ==
    CallEnvs \cup {e \in Envs : e.num_classes = Len(GetAllDiseasesFlat) + 1}

InitRoute == \E e \in RouteEnvs : ImportedIn(e)

\* a client posts a file to /analyze and the route answers
PostAnalyze ==
    /\ phase = "ready"
    /\ op = "idle"
    /\ \E req \in Requests :
         \E rt \in (IF Validations(req).outcome.raised THEN {NoRuntime}
                    ELSE CallRuntimeChoices(Self, req.image_data)) :
            \E out \in {AnalyzePlant(Self, req, rt)} :
                /\ request' = req
                /\ route_steps' = out.steps
                /\ response' = out.response
                /\ image_data' = IF out.called THEN req.image_data ELSE NoImage
                /\ runtime' = rt
                /\ processed_image' = out.run.pre
                /\ steps' = out.run.steps
                /\ base_probs' = out.run.base_probs
                /\ result' = out.run.ret
                /\ model' = out.run.self.model
                /\ model_loaded' = out.run.self.model_loaded
                /\ tensorflow_available' = out.run.self.tensorflow_available
                /\ loads' = out.run.self.loads
    /\ op' = "analyze_plant"
    /\ UNCHANGED <<env, phase, disease_arg, cacheVars, calls>>

NextRoute == PostAnalyze \/ Done

SpecRoute == InitRoute /\ [][NextRoute]_vars

\* the order of the statements of analyze_plant
RouteOrder ==
    <<"content_type", "read", "max_size", "min_size", "open",
      "analyze", "recommendations", "response">>

RouteStepsRun == {route_steps[i] : i \in 1..Len(route_steps)}

\* C24: analyze_plant_image is called only after the content-type check, the
\* two size checks and the decode check have passed, in that order: the
\* statements run are an initial part of the route's order, the call is among
\* them exactly when the four checks pass, and a request that fails one is
\* answered by the first check it fails (400 for the type, 413 above
\* 10485760 bytes, 400 under 100 bytes, 400 for bytes that do not open)
\* without the service having been called.
C24_ChecksBeforeAnalyze ==
    op = "analyze_plant" =>
        LET type_ok == request.content_type \in
                          {"", "unknown", "image/jpeg", "image/jpg",
                           "image/png", "image/webp"}
            not_large == request.file_size <= 10 * 1024 * 1024
            not_small == request.file_size >= 100
            opens == request.image_data.decode # "undecodable"
            rejected(status_code, last) ==
                /\ response.status_code = status_code
                /\ response.handler = "HTTPException"
                /\ route_steps[Len(route_steps)] = last
                /\ steps = <<>>
                /\ result = NoOutcome
        IN  /\ route_steps = SubSeq(RouteOrder, 1, Len(route_steps))
            /\ route_steps # <<>>
            /\ ("analyze" \in RouteStepsRun) <=>
                  (type_ok /\ not_large /\ not_small /\ opens)
            /\ ("analyze" \in RouteStepsRun) <=> (steps # <<>>)
            /\ ~type_ok => rejected(400, "content_type")
            /\ (type_ok /\ ~not_large) => rejected(413, "max_size")
            /\ (type_ok /\ not_large /\ ~not_small) => rejected(400, "min_size")
            /\ (type_ok /\ not_large /\ not_small /\ ~opens) => rejected(400, "open")

\* C24 witness: a file of an unsupported type that is also too large and not
\* an image was rejected with 400 by the type check, nothing after it ran.
C24_Witness ==
    /\ op = "analyze_plant"
    /\ request.content_type = "text/plain"
    /\ request.file_size > MAX_FILE_SIZE
    /\ request.image_data = UndecodableBytes
    /\ route_steps = <<"content_type">>
    /\ response.status_code = 400
    /\ steps = <<>>

\* a file of exactly the limit went through to the service, and one byte
\* more was rejected with 413 though its bytes do not open either
C24_AtTheLimit ==
    /\ op = "analyze_plant"
    /\ \/ /\ request.file_size = MAX_FILE_SIZE
          /\ "analyze" \in RouteStepsRun
       \/ /\ request.file_size = MAX_FILE_SIZE + 1
          /\ request.image_data = UndecodableBytes
          /\ response.status_code = 413

C25_PredictRaised ==
    /\ op = "analyze_plant"
    /\ runtime.predict_raises
    /\ steps = <<"preprocess", "real", "fallback">>
    /\ response.status_code = 200

====
